---------------------------- MODULE Spec2Model ----------------------------
(***************************************************************************)
(* A model of aws_inventory.py: the AWSInventory collector (constructor,   *)
(* client factory, the six listing operations, save_to_excel) and the      *)
(* __main__ orchestration script, with the provider (boto3), the YAML      *)
(* configuration document and the Excel writer as the environment.         *)
(*                                                                         *)
(* A Python dict is a sequence of <<key, value>> pairs (insertion order),  *)
(* a DataFrame is [columns, rows], a provider item is a record whose       *)
(* DOMAIN is the set of keys the response carries.                         *)
(***************************************************************************)
EXTENDS Naturals, Sequences, FiniteSets, TLC

VARIABLES
    config,                 \* the parsed YAML document read by load_yaml
    constructed,            \* TRUE once AWSInventory.__init__ has returned
    aws_access_key_id,      \* self.aws_access_key_id
    aws_secret_access_key,  \* self.aws_secret_access_key
    pc,                     \* position of the __main__ script
    r,                      \* index into regions of the for loop
    all_ec2_data, all_rds_data, all_eks_data,
    all_volumes_data, all_snapshots_data, df_s3,
    df,                     \* the last value returned by a listing operation
    clients,                \* every boto3 client constructed, in order
    calls,                  \* every enumeration call issued, in order
    responses,              \* the provider's outcome of each call
    df_dict,                \* the mapping handed to save_to_excel
    saveCalls,              \* how many times save_to_excel was invoked
    handle,                 \* the ExcelWriter file handle
    sheets,                 \* the worksheets written so far
    error                   \* the exception that ended the run, if any

vars == <<config, constructed, aws_access_key_id, aws_secret_access_key, pc, r,
          all_ec2_data, all_rds_data, all_eks_data, all_volumes_data,
          all_snapshots_data, df_s3, df, clients, calls, responses, df_dict,
          saveCalls, handle, sheets, error>>

-----------------------------------------------------------------------------
(* Bounds of the environment *)

\* the most items one provider response holds
MaxItems == 2
\* the most items the provider returns over one run of the script
MaxResources == 3
\* the most listing operations called in the per-operation specification
MaxOpCalls == 2

-----------------------------------------------------------------------------
(* Python values *)

None == "None"

\* dict.keys(), in insertion order
Keys(d) == [i \in 1..Len(d) |-> d[i][1]]

\* d[k] for a key the dict holds
Get(d, k) == d[CHOOSE i \in 1..Len(d) : d[i][1] = k][2]

Range(s) == {s[i] : i \in 1..Len(s)}

RECURSIVE Flatten(_)
Flatten(ss) == IF ss = <<>> THEN <<>> ELSE Head(ss) \o Flatten(Tail(ss))

\* pd.DataFrame(): no columns, no rows
EmptyDataFrame == [columns |-> <<>>, rows |-> <<>>]

\* pd.DataFrame(data) for a list of dicts that share their keys: the columns
\* are the keys of the records, so a list with no record gives no column
DataFrame(data) ==
    [columns |-> IF data = <<>> THEN <<>> ELSE Keys(data[1]), rows |-> data]

RECURSIVE Union(_, _)
\* the columns of b appended to those of a, without repeats
Union(a, b) ==
    IF b = <<>> THEN a
    ELSE Union(IF Head(b) \in Range(a) THEN a ELSE Append(a, Head(b)), Tail(b))

\* a fault of the concatenation: the new table is put in front
concatPrepend(a, b) == [columns |-> Union(b.columns, a.columns), rows |-> b.rows \o a.rows]

\* pd.concat([a, b], ignore_index=True)
concat(a, b) == [columns |-> Union(a.columns, b.columns), rows |-> a.rows \o b.rows]


-----------------------------------------------------------------------------
(* The provider: what an enumeration call can answer *)

regions == <<"us-east-1", "eu-west-1", "sa-east-1">>

NameTag == [Key |-> "Name", Value |-> "web-1"]
EnvTag == [Key |-> "Env", Value |-> "prod"]

\* the tag lists an instance can carry
TagLists == {<<>>, <<EnvTag>>, <<NameTag>>, <<EnvTag, NameTag>>}

\* an instance either carries a "Tags" list or, when it was never tagged,
\* no "Tags" key at all
TagChoices(lists) ==
    {[tagged |-> FALSE, tags |-> <<>>]} \cup {[tagged |-> TRUE, tags |-> t] : t \in lists}

\* the tag lists met in a run of the script
RunTagLists == {<<>>, <<NameTag>>}

\* the k-th instance of a region's response
Instance(region, k, c) ==
    LET base == [InstanceId |-> <<region, k>>, InstanceType |-> "t3.micro",
                 PlatformDetails |-> "Linux/UNIX", State |-> [Name |-> "running"]]
    IN  IF c.tagged THEN base @@ [Tags |-> c.tags] ELSE base

Volume(region, k) == [VolumeId |-> <<region, k>>, Size |-> 8, State |-> "available"]
Snapshot(region, k) == [SnapshotId |-> <<region, k>>, VolumeSize |-> 8, State |-> "completed"]
Bucket(region, k) == [Name |-> IF k = 1 THEN "logs-bucket" ELSE "data-bucket"]
DBInstance(region, k) == [DBInstanceIdentifier |-> <<region, k>>, Engine |-> "postgres"]
Cluster(region, k) == <<region, k>>

RECURSIVE Chunk(_, _)
\* a list cut into runs of g items
Chunk(s, g) ==
    IF s = <<>> THEN <<>>
    ELSE IF Len(s) <= g THEN <<s>>
    ELSE <<SubSeq(s, 1, g)>> \o Chunk(SubSeq(s, g + 1, Len(s)), g)

Min(a, b) == IF a <= b THEN a ELSE b

\* the responses of describe_instances with at most n instances, tagged
\* with the given tag lists or untagged, grouped into reservations
InstancesResponses(region, n, lists) ==
    {[Reservations |->
        [j \in 1..Len(Chunk([k \in 1..m |-> Instance(region, k, c[k])], g)) |->
            [Instances |-> Chunk([k \in 1..m |-> Instance(region, k, c[k])], g)[j]]]] :
        <<m, g, c>> \in
            {<<m, g, c>> \in (0..n) \X (1..MaxItems) \X [1..MaxItems -> TagChoices(lists)] :
                /\ g <= (IF m = 0 THEN 1 ELSE m)
                /\ \A k \in (m + 1)..MaxItems : c[k] = [tagged |-> TRUE, tags |-> <<>>]}}

VolumesResponses(region, n) ==
    {[Volumes |-> [k \in 1..m |-> Volume(region, k)]] : m \in 0..n}
SnapshotsResponses(region, n) ==
    {[Snapshots |-> [k \in 1..m |-> Snapshot(region, k)]] : m \in 0..n}
BucketsResponses(region, n) ==
    {[Buckets |-> [k \in 1..m |-> Bucket(region, k)]] : m \in 0..n}
DBInstancesResponses(region, n) ==
    {[DBInstances |-> [k \in 1..m |-> DBInstance(region, k)]] : m \in 0..n}
ClustersResponses(region, n) ==
    {[clusters |-> [k \in 1..m |-> Cluster(region, k)]] : m \in 0..n}

\* how many items a response holds
ItemCount(body) ==
    IF "Reservations" \in DOMAIN body
      THEN Len(Flatten([j \in 1..Len(body.Reservations) |-> body.Reservations[j].Instances]))
    ELSE IF "Volumes" \in DOMAIN body THEN Len(body.Volumes)
    ELSE IF "Snapshots" \in DOMAIN body THEN Len(body.Snapshots)
    ELSE IF "Buckets" \in DOMAIN body THEN Len(body.Buckets)
    ELSE IF "DBInstances" \in DOMAIN body THEN Len(body.DBInstances)
    ELSE IF "clusters" \in DOMAIN body THEN Len(body.clusters)
    ELSE 0

\* a response is one page: a full page may carry the token of a next page
Pages(bodies, token) ==
    bodies \cup {b @@ (token :> "page-2") : b \in {x \in bodies : ItemCount(x) = MaxItems}}

\* a call either answers with a page or raises (auth failure, throttling,
\* network error)
ClientError == [ok |-> FALSE, body |-> [Error |-> "ClientError"]]
Outcomes(bodies, token) ==
    {[ok |-> TRUE, body |-> b] : b \in Pages(bodies, token)} \cup {ClientError}

\* how many items the calls answered so far returned
RECURSIVE Returned(_)
Returned(rs) ==
    IF rs = <<>> THEN 0 ELSE Returned(Tail(rs)) + ItemCount(Head(rs).body)

\* the items the provider can still return in this run
Budget == Min(MaxItems, MaxResources - Returned(responses))

-----------------------------------------------------------------------------
(* AWSInventory *)

\* a fault of the client factory: the region argument is not passed on
get_boto_client_fixed_region(service_name, region_name) ==
    [service |-> service_name, region |-> "us-east-1",
     aws_access_key_id |-> aws_access_key_id,
     aws_secret_access_key |-> aws_secret_access_key]

\* boto3.client(service_name, region_name=..., aws_access_key_id=..., ...)
get_boto_client(service_name, region_name) ==
    [service |-> service_name, region |-> region_name,
     aws_access_key_id |-> aws_access_key_id,
     aws_secret_access_key |-> aws_secret_access_key]

\* what a listing operation gives back: a table, or the exception it raised
Returns(op, table) == [op |-> op, status |-> "ok", table |-> table]
Raises(op, exc) == [op |-> op, status |-> exc, table |-> EmptyDataFrame]

\* next((tag['Value'] for tag in tags if tag['Key'] == 'Name'), '')
RECURSIVE NameOf(_)
NameOf(tags) ==
    IF tags = <<>> THEN ""
    ELSE IF Head(tags).Key = "Name" THEN Head(tags).Value
    ELSE NameOf(Tail(tags))

\* the dict appended for one instance; instance['Tags'] is read first
InstanceRecord(instance, aws_region) ==
    << <<"Name", NameOf(instance.Tags)>>,
       <<"Instance ID", instance.InstanceId>>,
       <<"Type", instance.InstanceType>>,
       <<"OS", instance.PlatformDetails>>,
       <<"Region", aws_region>>,
       <<"State", instance.State.Name>> >>

list_ec2_instances(aws_region, out) ==
    IF ~out.ok THEN Raises("list_ec2_instances", "ClientError")
    ELSE LET instances == Flatten([j \in 1..Len(out.body.Reservations) |->
                                      out.body.Reservations[j].Instances])
         IN  IF \E i \in 1..Len(instances) : "Tags" \notin DOMAIN instances[i]
               THEN Raises("list_ec2_instances", "KeyError")
               ELSE Returns("list_ec2_instances",
                        DataFrame([i \in 1..Len(instances) |->
                                      InstanceRecord(instances[i], aws_region)]))

list_ec2_volumes(aws_region, out) ==
    IF ~out.ok THEN Raises("list_ec2_volumes", "ClientError")
    ELSE Returns("list_ec2_volumes",
             DataFrame([i \in 1..Len(out.body.Volumes) |->
                 << <<"Volume ID", out.body.Volumes[i].VolumeId>>,
                    <<"Size", out.body.Volumes[i].Size>>,
                    <<"State", out.body.Volumes[i].State>>,
                    <<"Region", aws_region>> >>]))

list_ec2_snapshots(aws_region, out) ==
    IF ~out.ok THEN Raises("list_ec2_snapshots", "ClientError")
    ELSE Returns("list_ec2_snapshots",
             DataFrame([i \in 1..Len(out.body.Snapshots) |->
                 << <<"Snapshot ID", out.body.Snapshots[i].SnapshotId>>,
                    <<"Volume Size", out.body.Snapshots[i].VolumeSize>>,
                    <<"State", out.body.Snapshots[i].State>>,
                    <<"Region", aws_region>> >>]))

list_s3_buckets(out) ==
    IF ~out.ok THEN Raises("list_s3_buckets", "ClientError")
    ELSE Returns("list_s3_buckets",
             DataFrame([i \in 1..Len(out.body.Buckets) |->
                 << <<"Bucket Name", out.body.Buckets[i].Name>> >>]))

list_rds_instances(aws_region, out) ==
    IF ~out.ok THEN Raises("list_rds_instances", "ClientError")
    ELSE Returns("list_rds_instances",
             DataFrame([i \in 1..Len(out.body.DBInstances) |->
                 << <<"DB Instance Identifier", out.body.DBInstances[i].DBInstanceIdentifier>>,
                    <<"DB Engine", out.body.DBInstances[i].Engine>> >>]))

list_eks_clusters(aws_region, out) ==
    IF ~out.ok THEN Raises("list_eks_clusters", "ClientError")
    ELSE Returns("list_eks_clusters",
             DataFrame([i \in 1..Len(out.body.clusters) |->
                 << <<"Cluster Name", out.body.clusters[i]>> >>]))

\* the region the bucket listing builds its client for
S3Region == "us-east-1"

\* one listing operation: a fresh client, one enumeration call on it
Issue(service_name, operation, region_name, out) ==
    /\ clients' = Append(clients, get_boto_client(service_name, region_name))
    /\ calls' = Append(calls, [service |-> service_name, operation |-> operation,
                                region |-> region_name])
    /\ responses' = Append(responses, out)

-----------------------------------------------------------------------------
(* Configuration *)

\* the credential pairs an account can have
KeyPairs == {<<"AKIA_TEST", "secret_test">>, <<"AKIA_OTHER", "secret_other">>}

\* the key-value documents aws_credentials.yml can hold: both keys, one of
\* them, or none
ConfigDocs ==
    {<<>>}
    \cup {<< <<"AWS_ACCESS_KEY_ID", p[1]>> >> : p \in KeyPairs}
    \cup {<< <<"AWS_SECRET_ACCESS_KEY", p[2]>> >> : p \in KeyPairs}
    \cup {<< <<"AWS_ACCESS_KEY_ID", p[1]>>, <<"AWS_SECRET_ACCESS_KEY", p[2]>> >> :
             p \in KeyPairs}

\* a fault of the loader: a key the document lacks is given an empty value
load_yaml_defaults(doc) ==
    [k \in {"AWS_ACCESS_KEY_ID", "AWS_SECRET_ACCESS_KEY"} |->
        IF k \in Range(Keys(doc)) THEN Get(doc, k) ELSE ""]

\* yaml.load of a key-value document: the dictionary of its entries
load_yaml(doc) == [k \in Range(Keys(doc)) |-> Get(doc, k)]

-----------------------------------------------------------------------------
(* The __main__ script *)

NoResult == [op |-> "none", status |-> "none", table |-> EmptyDataFrame]

Init ==
    /\ config \in ConfigDocs
    /\ constructed = FALSE
    /\ aws_access_key_id = None
    /\ aws_secret_access_key = None
    /\ pc = "start"
    /\ r = 1
    /\ all_ec2_data = EmptyDataFrame
    /\ all_rds_data = EmptyDataFrame
    /\ all_eks_data = EmptyDataFrame
    /\ all_volumes_data = EmptyDataFrame
    /\ all_snapshots_data = EmptyDataFrame
    /\ df_s3 = EmptyDataFrame
    /\ df = NoResult
    /\ clients = <<>>
    /\ calls = <<>>
    /\ responses = <<>>
    /\ df_dict = <<>>
    /\ saveCalls = 0
    /\ handle = "none"
    /\ sheets = <<>>
    /\ error = "none"

tables == <<all_ec2_data, all_rds_data, all_eks_data, all_volumes_data,
            all_snapshots_data, df_s3>>
credentials == <<constructed, aws_access_key_id, aws_secret_access_key>>
provider == <<clients, calls, responses>>
writer == <<df_dict, saveCalls, handle, sheets>>

\* AWSInventory('aws_credentials.yml'), then the empty cross-region tables
Construct ==
    /\ pc = "start"
    /\ LET aws_credentials == load_yaml(config) IN
       IF "AWS_ACCESS_KEY_ID" \notin DOMAIN aws_credentials
         THEN /\ error' = "KeyError"
              /\ pc' = "aborted"
              /\ UNCHANGED credentials
         ELSE IF "AWS_SECRET_ACCESS_KEY" \notin DOMAIN aws_credentials
           THEN /\ aws_access_key_id' = aws_credentials["AWS_ACCESS_KEY_ID"]
                /\ error' = "KeyError"
                /\ pc' = "aborted"
                /\ UNCHANGED <<constructed, aws_secret_access_key>>
           ELSE /\ aws_access_key_id' = aws_credentials["AWS_ACCESS_KEY_ID"]
                /\ aws_secret_access_key' = aws_credentials["AWS_SECRET_ACCESS_KEY"]
                /\ constructed' = TRUE
                /\ pc' = "ec2"
                /\ error' = error
    /\ UNCHANGED <<config, r, tables, df, provider, writer>>

\* a fault of the script: the exception is caught and the script goes on
PropagateSwallowed(status, next) == next

\* an exception raised by a statement of the script is not caught: the
\* script stops there
Propagate(status, next) == IF status = "ok" THEN next ELSE "aborted"

\* a fault of the loop: the last region is left out
LoopNextOffByOne(i) == IF i < Len(regions) - 1 THEN "ec2" ELSE "s3"

\* where the for loop goes after the last statement of its body
LoopNext(i) == IF i < Len(regions) THEN "ec2" ELSE "s3"

\* df_ec2 = inventory.list_ec2_instances(region); all_ec2_data = pd.concat(...)
MainListEc2 ==
    /\ pc = "ec2"
    /\ \E out \in Outcomes(InstancesResponses(regions[r], Budget, RunTagLists), "NextToken") :
         LET res == list_ec2_instances(regions[r], out) IN
         /\ Issue("ec2", "describe_instances", regions[r], out)
         /\ df' = res
         /\ all_ec2_data' = IF res.status = "ok" THEN concat(all_ec2_data, res.table)
                            ELSE all_ec2_data
         /\ error' = IF res.status = "ok" THEN error ELSE res.status
         /\ pc' = Propagate(res.status, "rds")
    /\ UNCHANGED <<config, credentials, r, all_rds_data, all_eks_data,
                   all_volumes_data, all_snapshots_data, df_s3, writer>>

\* df_rds = inventory.list_rds_instances(region); all_rds_data = pd.concat(...)
MainListRds ==
    /\ pc = "rds"
    /\ \E out \in Outcomes(DBInstancesResponses(regions[r], Budget), "Marker") :
         LET res == list_rds_instances(regions[r], out) IN
         /\ Issue("rds", "describe_db_instances", regions[r], out)
         /\ df' = res
         /\ all_rds_data' = IF res.status = "ok" THEN concat(all_rds_data, res.table)
                            ELSE all_rds_data
         /\ error' = IF res.status = "ok" THEN error ELSE res.status
         /\ pc' = Propagate(res.status, "volumes")
    /\ UNCHANGED <<config, credentials, r, all_ec2_data, all_eks_data,
                   all_volumes_data, all_snapshots_data, df_s3, writer>>

\* df_volumes = inventory.list_ec2_volumes(region); all_volumes_data = pd.concat(...)
MainListVolumes ==
    /\ pc = "volumes"
    /\ \E out \in Outcomes(VolumesResponses(regions[r], Budget), "NextToken") :
         LET res == list_ec2_volumes(regions[r], out) IN
         /\ Issue("ec2", "describe_volumes", regions[r], out)
         /\ df' = res
         /\ all_volumes_data' = IF res.status = "ok" THEN concat(all_volumes_data, res.table)
                                ELSE all_volumes_data
         /\ error' = IF res.status = "ok" THEN error ELSE res.status
         /\ pc' = Propagate(res.status, "snapshots")
    /\ UNCHANGED <<config, credentials, r, all_ec2_data, all_rds_data, all_eks_data,
                   all_snapshots_data, df_s3, writer>>

\* df_snapshots = inventory.list_ec2_snapshots(region); all_snapshots_data =
\* pd.concat(...); then the next region, or the end of the loop
MainListSnapshots ==
    /\ pc = "snapshots"
    /\ \E out \in Outcomes(SnapshotsResponses(regions[r], Budget), "NextToken") :
         LET res == list_ec2_snapshots(regions[r], out) IN
         /\ Issue("ec2", "describe_snapshots", regions[r], out)
         /\ df' = res
         /\ all_snapshots_data' = IF res.status = "ok"
                                    THEN concat(all_snapshots_data, res.table)
                                    ELSE all_snapshots_data
         /\ error' = IF res.status = "ok" THEN error ELSE res.status
         /\ pc' = Propagate(res.status, LoopNext(r))
         /\ r' = IF res.status = "ok" /\ r < Len(regions) THEN r + 1 ELSE r
    /\ UNCHANGED <<config, credentials, all_ec2_data, all_rds_data, all_eks_data,
                   all_volumes_data, df_s3, writer>>

\* df_s3 = inventory.list_s3_buckets()
MainListS3 ==
    /\ pc = "s3"
    /\ \E out \in Outcomes(BucketsResponses(S3Region, Budget), "ContinuationToken") :
         LET res == list_s3_buckets(out) IN
         /\ Issue("s3", "list_buckets", S3Region, out)
         /\ df' = res
         /\ df_s3' = IF res.status = "ok" THEN res.table ELSE df_s3
         /\ error' = IF res.status = "ok" THEN error ELSE res.status
         /\ pc' = Propagate(res.status, "save")
    /\ UNCHANGED <<config, credentials, r, all_ec2_data, all_rds_data, all_eks_data,
                   all_volumes_data, all_snapshots_data, writer>>

\* a fault of the script: the disabled EKS entry is part of the dict
BuildDfDictWithEks ==
    << <<"EC2", all_ec2_data>>,
       <<"RDS", all_rds_data>>,
       <<"EKS", all_eks_data>>,
       <<"EC2-Volumes", all_volumes_data>>,
       <<"EC2-Snapshots", all_snapshots_data>>,
       <<"S3-Buckets", df_s3>> >>

\* the dict literal of the script: sheet name -> table, in insertion order
BuildDfDict ==
    << <<"EC2", all_ec2_data>>,
       <<"RDS", all_rds_data>>,
       <<"EC2-Volumes", all_volumes_data>>,
       <<"EC2-Snapshots", all_snapshots_data>>,
       <<"S3-Buckets", df_s3>> >>

\* a fault of the writer: no with block, the handle is never closed
ExcelWriterLeak(h) == h

\* leaving the with block, normally or by an exception, closes the writer
ExcelWriterExit(h) == IF h = "open" THEN "closed" ELSE h

\* df_dict = {...}; inventory.save_to_excel(df_dict, output_file) up to the
\* opening of the writer, which can fail (the path cannot be written)
MainSave ==
    /\ pc = "save"
    /\ df_dict' = BuildDfDict
    /\ saveCalls' = saveCalls + 1
    /\ \/ /\ handle' = "open"
          /\ pc' = "writing"
          /\ error' = error
       \/ /\ handle' = handle
          /\ pc' = "aborted"
          /\ error' = "SerializationError"
    /\ UNCHANGED <<config, credentials, r, tables, df, provider, sheets>>

\* one turn of the loop over dataframe_dict.items(): df.to_excel(...) writes
\* the sheet, or raises and the with block is left
WriteSheet ==
    /\ pc = "writing"
    /\ Len(sheets) < Len(df_dict)
    /\ LET item == df_dict[Len(sheets) + 1] IN
       \/ /\ sheets' = Append(sheets, [sheet_name |-> item[1], df |-> item[2]])
          /\ UNCHANGED <<handle, pc, error>>
       \/ /\ handle' = ExcelWriterExit(handle)
          /\ pc' = "aborted"
          /\ error' = "SerializationError"
          /\ sheets' = sheets
    /\ UNCHANGED <<config, credentials, r, tables, df, provider, df_dict, saveCalls>>

\* the loop is over: the with block is left and save_to_excel returns
CloseWriter ==
    /\ pc = "writing"
    /\ Len(sheets) = Len(df_dict)
    /\ handle' = ExcelWriterExit(handle)
    /\ pc' = "done"
    /\ UNCHANGED <<config, credentials, r, tables, df, provider, df_dict, saveCalls,
                   sheets, error>>

Next ==
    \/ Construct
    \/ MainListEc2
    \/ MainListRds
    \/ MainListVolumes
    \/ MainListSnapshots
    \/ MainListS3
    \/ MainSave
    \/ WriteSheet
    \/ CloseWriter

Spec == Init /\ [][Next]_vars

-----------------------------------------------------------------------------
(* The listing operations called one by one on a constructed collector *)

RegionNames == Range(regions)

OpListEc2 ==
    /\ constructed /\ Len(calls) < MaxOpCalls
    /\ \E region \in RegionNames :
       \E out \in Outcomes(InstancesResponses(region, MaxItems, TagLists), "NextToken") :
         /\ Issue("ec2", "describe_instances", region, out)
         /\ df' = list_ec2_instances(region, out)
    /\ UNCHANGED <<config, credentials, pc, r, tables, writer, error>>

OpListVolumes ==
    /\ constructed /\ Len(calls) < MaxOpCalls
    /\ \E region \in RegionNames :
       \E out \in Outcomes(VolumesResponses(region, MaxItems), "NextToken") :
         /\ Issue("ec2", "describe_volumes", region, out)
         /\ df' = list_ec2_volumes(region, out)
    /\ UNCHANGED <<config, credentials, pc, r, tables, writer, error>>

OpListSnapshots ==
    /\ constructed /\ Len(calls) < MaxOpCalls
    /\ \E region \in RegionNames :
       \E out \in Outcomes(SnapshotsResponses(region, MaxItems), "NextToken") :
         /\ Issue("ec2", "describe_snapshots", region, out)
         /\ df' = list_ec2_snapshots(region, out)
    /\ UNCHANGED <<config, credentials, pc, r, tables, writer, error>>

OpListS3 ==
    /\ constructed /\ Len(calls) < MaxOpCalls
    /\ \E out \in Outcomes(BucketsResponses(S3Region, MaxItems), "ContinuationToken") :
         /\ Issue("s3", "list_buckets", S3Region, out)
         /\ df' = list_s3_buckets(out)
    /\ UNCHANGED <<config, credentials, pc, r, tables, writer, error>>

OpListRds ==
    /\ constructed /\ Len(calls) < MaxOpCalls
    /\ \E region \in RegionNames :
       \E out \in Outcomes(DBInstancesResponses(region, MaxItems), "Marker") :
         /\ Issue("rds", "describe_db_instances", region, out)
         /\ df' = list_rds_instances(region, out)
    /\ UNCHANGED <<config, credentials, pc, r, tables, writer, error>>

OpListEks ==
    /\ constructed /\ Len(calls) < MaxOpCalls
    /\ \E region \in RegionNames :
       \E out \in Outcomes(ClustersResponses(region, MaxItems), "nextToken") :
         /\ Issue("eks", "list_clusters", region, out)
         /\ df' = list_eks_clusters(region, out)
    /\ UNCHANGED <<config, credentials, pc, r, tables, writer, error>>

NextOps ==
    \/ Construct
    \/ OpListEc2
    \/ OpListVolumes
    \/ OpListSnapshots
    \/ OpListS3
    \/ OpListRds
    \/ OpListEks

SpecOps == Init /\ [][NextOps]_vars

-----------------------------------------------------------------------------
(* Properties *)

\* the instances of a describe_instances response, in response order
InstancesOf(body) ==
    Flatten([j \in 1..Len(body.Reservations) |-> body.Reservations[j].Instances])

\* the last call and what the provider answered
LastCall == calls[Len(calls)]
LastResponse == responses[Len(responses)]

HasNameTag(instance) ==
    /\ "Tags" \in DOMAIN instance
    /\ \E t \in 1..Len(instance.Tags) : instance.Tags[t].Key = "Name"

\* C1: list_ec2_instances never fails because of a missing Name tag: when
\* the provider answers, the operation returns a table with one row per
\* instance, and the row of every instance that has no tag with Key = "Name"
\* (an empty tag list, only other keys, or no tag list at all) has Name = "".
C1_MissingNameIsEmpty ==
    (/\ Len(calls) > 0
     /\ LastCall.operation = "describe_instances"
     /\ LastResponse.ok)
    => /\ df.status = "ok"
       /\ Len(df.table.rows) = Len(InstancesOf(LastResponse.body))
       /\ \A k \in 1..Len(df.table.rows) :
             ~HasNameTag(InstancesOf(LastResponse.body)[k])
                => Get(df.table.rows[k], "Name") = ""

\* the column set of each resource kind
FixedColumns(op) ==
    IF op = "list_ec2_instances"
      THEN <<"Name", "Instance ID", "Type", "OS", "Region", "State">>
    ELSE IF op = "list_ec2_volumes" THEN <<"Volume ID", "Size", "State", "Region">>
    ELSE IF op = "list_ec2_snapshots"
      THEN <<"Snapshot ID", "Volume Size", "State", "Region">>
    ELSE IF op = "list_s3_buckets" THEN <<"Bucket Name">>
    ELSE IF op = "list_rds_instances" THEN <<"DB Instance Identifier", "DB Engine">>
    ELSE <<"Cluster Name">>

\* C2: for each of the six listing operations, a provider response with
\* zero items gives, without error, a table with zero rows and the kind's
\* fixed column set.
C2_EmptyResponseKeepsColumns ==
    (/\ Len(calls) > 0
     /\ LastResponse.ok
     /\ Returned(<<LastResponse>>) = 0)
    => /\ df.status = "ok"
       /\ df.table.rows = <<>>
       /\ df.table.columns = FixedColumns(df.op)

\* C3: if any provider call fails, the failure is not caught or retried: it
\* is the last call issued, the run is aborted, save_to_excel is never
\* invoked and no sheet is written.
C3_FailTheWholeRun ==
    \A i \in 1..Len(responses) :
        ~responses[i].ok
          => /\ i = Len(responses)
             /\ Len(calls) = i
             /\ pc = "aborted"
             /\ error = "ClientError"
             /\ saveCalls = 0
             /\ df_dict = <<>>
             /\ handle = "none"
             /\ sheets = <<>>

\* the final bucket listing, after all three regions, is the call that fails
C3_Witness ==
    /\ Len(responses) = 4 * Len(regions) + 1
    /\ ~LastResponse.ok
    /\ pc = "aborted"

\* the region loop is over
AfterLoop == pc \in {"s3", "save", "writing", "done"} \/ Len(calls) > 4 * Len(regions)

\* the identifiers the provider returned, in response order
ItemIds(body) ==
    IF "Reservations" \in DOMAIN body
      THEN LET instances == InstancesOf(body)
           IN  [k \in 1..Len(instances) |-> instances[k].InstanceId]
    ELSE IF "Volumes" \in DOMAIN body
      THEN [k \in 1..Len(body.Volumes) |-> body.Volumes[k].VolumeId]
    ELSE IF "Snapshots" \in DOMAIN body
      THEN [k \in 1..Len(body.Snapshots) |-> body.Snapshots[k].SnapshotId]
    ELSE [k \in 1..Len(body.DBInstances) |-> body.DBInstances[k].DBInstanceIdentifier]

\* what the provider answered to `operation` in the j-th region of the list
RegionAnswer(operation, j) ==
    responses[CHOOSE i \in 1..Len(calls) :
                 calls[i].operation = operation /\ calls[i].region = regions[j]].body

\* the identifiers of all regions, region after region in region-list order
ExpectedIds(operation) ==
    Flatten([j \in 1..Len(regions) |-> ItemIds(RegionAnswer(operation, j))])

ColumnOf(table, column) == [k \in 1..Len(table.rows) |-> Get(table.rows[k], column)]

\* C4: after the region loop every cross-region table holds the rows of the
\* per-region responses appended in region-list order, each in provider
\* response order: nothing dropped, duplicated or reordered, and every row
\* of a table with a Region column carries the region it came from.
C4_ConcatInRegionOrder ==
    AfterLoop =>
      /\ ColumnOf(all_ec2_data, "Instance ID") = ExpectedIds("describe_instances")
      /\ ColumnOf(all_rds_data, "DB Instance Identifier") = ExpectedIds("describe_db_instances")
      /\ ColumnOf(all_volumes_data, "Volume ID") = ExpectedIds("describe_volumes")
      /\ ColumnOf(all_snapshots_data, "Snapshot ID") = ExpectedIds("describe_snapshots")
      /\ \A k \in 1..Len(all_ec2_data.rows) :
            Get(all_ec2_data.rows[k], "Region") = Get(all_ec2_data.rows[k], "Instance ID")[1]
      /\ \A k \in 1..Len(all_volumes_data.rows) :
            Get(all_volumes_data.rows[k], "Region") = Get(all_volumes_data.rows[k], "Volume ID")[1]
      /\ \A k \in 1..Len(all_snapshots_data.rows) :
            Get(all_snapshots_data.rows[k], "Region")
              = Get(all_snapshots_data.rows[k], "Snapshot ID")[1]

\* a finished run whose EC2 table has two rows of one region followed by a
\* row of a later region
C4_Witness ==
    /\ pc = "done"
    /\ Len(all_ec2_data.rows) = 3
    /\ Get(all_ec2_data.rows[1], "Region") = Get(all_ec2_data.rows[2], "Region")
    /\ Get(all_ec2_data.rows[2], "Region") # Get(all_ec2_data.rows[3], "Region")

\* the scenario's provider: in us-east-1 two instances, the first tagged
\* Name = "web-1" and the second untagged, nothing else but one bucket
ScenarioInstances ==
    << Instance("us-east-1", 1, [tagged |-> TRUE, tags |-> <<NameTag>>]),
       Instance("us-east-1", 2, [tagged |-> FALSE, tags |-> <<>>]) >>

InScenario ==
    /\ Len(responses) >= 1
    /\ \A i \in 1..Len(responses) :
          /\ responses[i].ok
          /\ i = 1 => InstancesOf(responses[i].body) = ScenarioInstances
          /\ (i > 1 /\ calls[i].operation # "list_buckets")
                => Returned(<<responses[i]>>) = 0
          /\ calls[i].operation = "list_buckets"
                => responses[i].body.Buckets = <<[Name |-> "logs-bucket"]>>

\* C5: in the end-to-end scenario the run is not ended by the collector and
\* the mapping handed to the writer has an EC2 table with the names "web-1"
\* and "" in that order, empty RDS, EC2-Volumes and EC2-Snapshots tables and
\* an S3-Buckets table with the single row "logs-bucket".
C5_EndToEnd ==
    InScenario
      => /\ error \notin {"KeyError", "ClientError"}
         /\ df_dict # <<>>
              => /\ df_dict[1][1] = "EC2"
                 /\ ColumnOf(df_dict[1][2], "Name") = <<"web-1", "">>
                 /\ df_dict[2][1] = "RDS" /\ df_dict[2][2].rows = <<>>
                 /\ df_dict[3][1] = "EC2-Volumes" /\ df_dict[3][2].rows = <<>>
                 /\ df_dict[4][1] = "EC2-Snapshots" /\ df_dict[4][2].rows = <<>>
                 /\ df_dict[5][1] = "S3-Buckets"
                 /\ ColumnOf(df_dict[5][2], "Bucket Name") = <<"logs-bucket">>

HasKey(key) == \E i \in 1..Len(config) : config[i][1] = key
HasBothKeys == HasKey("AWS_ACCESS_KEY_ID") /\ HasKey("AWS_SECRET_ACCESS_KEY")

\* C6: for a configuration document in which AWS_ACCESS_KEY_ID or
\* AWS_SECRET_ACCESS_KEY is absent the constructor ends in a key-lookup
\* failure before any collector exists, so no client is constructed and no
\* call issued; for a document holding both keys the stored credentials are
\* the document's values.
C6_MissingKeyFails ==
    /\ ~HasBothKeys
         => /\ ~constructed
            /\ clients = <<>>
            /\ calls = <<>>
            /\ pc \in {"start", "aborted"}
            /\ pc = "aborted" => error = "KeyError"
    /\ (HasBothKeys /\ pc # "start")
         => /\ constructed
            /\ <<"AWS_ACCESS_KEY_ID", aws_access_key_id>> \in Range(config)
            /\ <<"AWS_SECRET_ACCESS_KEY", aws_secret_access_key>> \in Range(config)

\* the constructor has raised on a document that holds only the first key
C6_Witness ==
    /\ HasKey("AWS_ACCESS_KEY_ID")
    /\ ~HasKey("AWS_SECRET_ACCESS_KEY")
    /\ pc = "aborted"
    /\ error = "KeyError"

\* C7: save_to_excel releases the output file handle on every exit path:
\* once the operation has ended an opened handle is closed, after all
\* sheets were written as well as when writing the k-th sheet fails; a
\* failed write ends the run with the sheets written before it and nothing
\* after it.
C7_HandleReleased ==
    /\ pc \in {"done", "aborted"} => handle # "open"
    /\ handle = "open" => pc = "writing"
    /\ pc = "done" => handle = "closed" /\ Len(sheets) = Len(df_dict)
    /\ error = "SerializationError"
         => /\ pc = "aborted"
            /\ Len(sheets) < Len(df_dict)
            /\ handle = "closed" \/ (handle = "none" /\ sheets = <<>>)
    /\ \A n \in 1..Len(sheets) : sheets[n].sheet_name = df_dict[n][1]

\* writing the third sheet failed after two sheets were written
C7_Witness ==
    /\ pc = "aborted"
    /\ error = "SerializationError"
    /\ Len(sheets) = 2
    /\ handle = "closed"

Call(service_name, operation, region_name) ==
    [service |-> service_name, operation |-> operation, region |-> region_name]

\* the calls of a successful run
ExpectedCalls ==
    << Call("ec2", "describe_instances", "us-east-1"),
       Call("rds", "describe_db_instances", "us-east-1"),
       Call("ec2", "describe_volumes", "us-east-1"),
       Call("ec2", "describe_snapshots", "us-east-1"),
       Call("ec2", "describe_instances", "eu-west-1"),
       Call("rds", "describe_db_instances", "eu-west-1"),
       Call("ec2", "describe_volumes", "eu-west-1"),
       Call("ec2", "describe_snapshots", "eu-west-1"),
       Call("ec2", "describe_instances", "sa-east-1"),
       Call("rds", "describe_db_instances", "sa-east-1"),
       Call("ec2", "describe_volumes", "sa-east-1"),
       Call("ec2", "describe_snapshots", "sa-east-1"),
       Call("s3", "list_buckets", "us-east-1") >>

\* C8: the calls are issued region after region in the order us-east-1,
\* eu-west-1, sa-east-1, in each region in the order instances, databases,
\* volumes, snapshots; the bucket listing is issued once, after the last
\* snapshot call, and the writer is invoked once, after the bucket listing.
C8_CallOrder ==
    /\ Len(calls) <= Len(ExpectedCalls)
    /\ \A i \in 1..Len(calls) : calls[i] = ExpectedCalls[i]
    /\ saveCalls <= 1
    /\ saveCalls = 1 => calls = ExpectedCalls /\ LastResponse.ok
    /\ pc = "done" => saveCalls = 1

C8_Witness == pc = "done" /\ calls = ExpectedCalls /\ saveCalls = 1

\* C9: the report handed to the writer has exactly the sheet names EC2, RDS,
\* EC2-Volumes, EC2-Snapshots, S3-Buckets in that order, each written as one
\* worksheet named by its key; the cluster listing is never called and no
\* EKS sheet is part of the report: a finished run wrote five worksheets.
C9_FiveSheets ==
    /\ df_dict # <<>>
         => Keys(df_dict) = <<"EC2", "RDS", "EC2-Volumes", "EC2-Snapshots", "S3-Buckets">>
    /\ Len(sheets) <= Len(df_dict)
    /\ \A n \in 1..Len(sheets) :
          /\ sheets[n].sheet_name = df_dict[n][1]
          /\ sheets[n].sheet_name # "EKS"
          /\ sheets[n].df = df_dict[n][2]
    /\ \A i \in 1..Len(calls) :
          calls[i].service # "eks" /\ calls[i].operation # "list_clusters"
    /\ all_eks_data = EmptyDataFrame
    /\ pc = "done" => Len(sheets) = 5

C9_Witness == pc = "done" /\ Len(sheets) = 5 /\ sheets[5].sheet_name = "S3-Buckets"

\* C10: every listing operation constructs one fresh client for its
\* (service, region) pair from the stored credentials and issues one call on
\* it; the bucket listing uses us-east-1; the stored credentials stay those
\* of the document; a finished run constructed 13 clients, all with the same
\* credential pair.
C10_OneClientPerCall ==
    /\ Len(clients) = Len(calls)
    /\ Len(responses) = Len(calls)
    /\ \A i \in 1..Len(clients) :
          /\ clients[i].service = ExpectedCalls[i].service
          /\ clients[i].region = ExpectedCalls[i].region
          /\ calls[i].operation = "list_buckets"
               => clients[i].service = "s3" /\ clients[i].region = "us-east-1"
          /\ <<"AWS_ACCESS_KEY_ID", clients[i].aws_access_key_id>> \in Range(config)
          /\ <<"AWS_SECRET_ACCESS_KEY", clients[i].aws_secret_access_key>> \in Range(config)
          /\ clients[i].aws_access_key_id = aws_access_key_id
          /\ clients[i].aws_secret_access_key = aws_secret_access_key
    /\ constructed
         => /\ <<"AWS_ACCESS_KEY_ID", aws_access_key_id>> \in Range(config)
            /\ <<"AWS_SECRET_ACCESS_KEY", aws_secret_access_key>> \in Range(config)
    /\ pc = "done" => Len(clients) = 13

\* a finished run in which one response page carried the token of a next page
C10_Witness ==
    /\ pc = "done"
    /\ Len(clients) = 13
    /\ clients[13].region = "us-east-1"
    /\ clients[12].region = "sa-east-1"
    /\ \E i \in 1..Len(responses) : "NextToken" \in DOMAIN responses[i].body

=============================================================================
